---------------------------- MODULE Spec2Model ----------------------------
(***************************************************************************)
(* Model of the handler utility modules of ACE-Step:                       *)
(*   src/acestep/handler_modules/audio_utils.py                            *)
(*   src/acestep/handler_modules/metadata_builder.py                       *)
(*                                                                         *)
(* Every function of the two modules is a pure function.  A behaviour of   *)
(* the model is one call: Init draws the function and its arguments, the   *)
(* function's action computes its outcome (a returned value or a raised    *)
(* exception), and a follow-up action may feed a returned value to a       *)
(* second call, as the handler does when it chains the helpers.            *)
(*                                                                         *)
(* Python strings are sequences of one-character strings, so that          *)
(* formatting, parsing and line structure are computed, not assumed.       *)
(***************************************************************************)
EXTENDS Integers, Sequences, FiniteSets, TLC

VARIABLES
    pc,      \* "call" before the function has run, "done" after
    fn,      \* the name of the function being called
    args,    \* its arguments
    ret,     \* its outcome: [kind |-> "return" or an exception name, val |-> ...]
    caller   \* the previous call when args were taken from its result

vars == <<pc, fn, args, ret, caller>>

(***************************************************************************)
(* Bounds of the model.                                                    *)
(***************************************************************************)
MaxBatch == 3        \* batch_size ranges over 0..MaxBatch
MaxListLen == 4      \* length of a list given to a batch normalizer

(***************************************************************************)
(* Python values.  Scalars are records of one shape, so that values of     *)
(* different Python types can be compared.                                 *)
(***************************************************************************)
PyNone == [t |-> "None", i |-> 0, s |-> <<>>]
PyInt(n) == [t |-> "int", i |-> n, s |-> <<>>]
PyStr(chars) == [t |-> "str", i |-> 0, s |-> chars]

\* [x] * n and lst * n of Python: n copies of the list, one after another.
ListMul(lst, n) ==
    [k \in 1..(Len(lst) * n) |-> lst[((k - 1) % Len(lst)) + 1]]

Returned(v) == [kind |-> "return", val |-> v]
Raised(exc) == [kind |-> exc, val |-> <<>>]
Pending == [kind |-> "pending", val |-> <<>>]
NoCaller == [fn |-> "none"]

(***************************************************************************)
(* audio_utils.normalize_audio_code_hints and normalize_instructions.      *)
(* The argument is None, a str, a list, or a value of another type (a      *)
(* tensor): [t |-> type, s |-> the characters of a str, l |-> the items    *)
(* of a list].                                                             *)
(***************************************************************************)
BNone == [t |-> "None", s |-> <<>>, l |-> <<>>]
BStr(chars) == [t |-> "str", s |-> chars, l |-> <<>>]
BList(items) == [t |-> "list", s |-> <<>>, l |-> items]
BTensor == [t |-> "tensor", s |-> <<>>, l |-> <<>>]

\* A faulty variant: it returns a list of two or more items without
\* comparing its length with batch_size.
Mut_normalize_audio_code_hints(audio_code_hints, batch_size) ==
    IF audio_code_hints.t = "None"
    THEN Returned(ListMul(<<PyNone>>, batch_size))
    ELSE IF audio_code_hints.t = "str"
    THEN Returned(ListMul(<<PyStr(audio_code_hints.s)>>, batch_size))
    ELSE IF audio_code_hints.t = "list"
    THEN IF Len(audio_code_hints.l) = 0
         THEN Returned(ListMul(<<PyNone>>, batch_size))
         ELSE IF Len(audio_code_hints.l) = 1
         THEN Returned(ListMul(audio_code_hints.l, batch_size))
         ELSE Returned(audio_code_hints.l)
    ELSE Raised("TypeError")

normalize_audio_code_hints(audio_code_hints, batch_size) ==
    IF audio_code_hints.t = "None"
    THEN Returned(ListMul(<<PyNone>>, batch_size))
    ELSE IF audio_code_hints.t = "str"
    THEN Returned(ListMul(<<PyStr(audio_code_hints.s)>>, batch_size))
    ELSE IF audio_code_hints.t = "list"
    THEN IF Len(audio_code_hints.l) = 0
         THEN Returned(ListMul(<<PyNone>>, batch_size))
         ELSE IF Len(audio_code_hints.l) = 1
         THEN Returned(ListMul(audio_code_hints.l, batch_size))
         ELSE IF Len(audio_code_hints.l) # batch_size
         THEN Raised("ValueError")
         ELSE Returned(audio_code_hints.l)
    ELSE Raised("TypeError")

\* A faulty variant: it does not look at default when the list is empty.
Mut_normalize_instructions(instructions, batch_size, default) ==
    IF instructions.t = "None"
    THEN IF default.t = "None"
         THEN Raised("ValueError")
         ELSE Returned(ListMul(<<default>>, batch_size))
    ELSE IF instructions.t = "str"
    THEN Returned(ListMul(<<PyStr(instructions.s)>>, batch_size))
    ELSE IF instructions.t = "list"
    THEN IF Len(instructions.l) = 0
         THEN Returned(ListMul(<<default>>, batch_size))
         ELSE IF Len(instructions.l) = 1
         THEN Returned(ListMul(instructions.l, batch_size))
         ELSE IF Len(instructions.l) # batch_size
         THEN Raised("ValueError")
         ELSE Returned(instructions.l)
    ELSE Raised("TypeError")

normalize_instructions(instructions, batch_size, default) ==
    IF instructions.t = "None"
    THEN IF default.t = "None"
         THEN Raised("ValueError")
         ELSE Returned(ListMul(<<default>>, batch_size))
    ELSE IF instructions.t = "str"
    THEN Returned(ListMul(<<PyStr(instructions.s)>>, batch_size))
    ELSE IF instructions.t = "list"
    THEN IF Len(instructions.l) = 0
         THEN IF default.t = "None"
              THEN Raised("ValueError")
              ELSE Returned(ListMul(<<default>>, batch_size))
         ELSE IF Len(instructions.l) = 1
         THEN Returned(ListMul(instructions.l, batch_size))
         ELSE IF Len(instructions.l) # batch_size
         THEN Raised("ValueError")
         ELSE Returned(instructions.l)
    ELSE Raised("TypeError")

\* The inputs of the batch normalizers.
SeqsUpTo(S, n) == UNION {[1..k -> S] : k \in 0..n}
BatchItems == {PyStr(<<"a">>), PyStr(<<"b">>)}
BatchValues ==
    {BNone, BTensor, BStr(<<>>), BStr(<<"h">>)}
        \cup {BList(l) : l \in SeqsUpTo(BatchItems, MaxListLen)}
BatchDefaults == {PyNone, PyStr(<<"d">>)}

InitHints ==
    /\ fn = "normalize_audio_code_hints"
    /\ args \in [audio_code_hints : BatchValues, batch_size : 0..MaxBatch]

InitInstructions ==
    /\ fn = "normalize_instructions"
    /\ args \in [instructions : BatchValues, batch_size : 0..MaxBatch,
                 default : BatchDefaults]

Do_normalize_audio_code_hints ==
    /\ pc = "call"
    /\ fn = "normalize_audio_code_hints"
    /\ ret' = normalize_audio_code_hints(args.audio_code_hints, args.batch_size)
    /\ pc' = "done"
    /\ UNCHANGED <<fn, args, caller>>

Do_normalize_instructions ==
    /\ pc = "call"
    /\ fn = "normalize_instructions"
    /\ ret' = normalize_instructions(args.instructions, args.batch_size,
                                     args.default)
    /\ pc' = "done"
    /\ UNCHANGED <<fn, args, caller>>

(***************************************************************************)
(* audio_utils.normalize_audio_to_stereo_48k.                              *)
(* An audio tensor of shape [channels, samples] is                         *)
(*   [ch |-> the channels, n |-> samples per channel, rate |-> Hz].        *)
(* A channel is [id |-> the signal it carries, rs |-> the resamplings      *)
(* applied to it]: resampling is an external primitive, so a resampled     *)
(* signal is identified by its source signal and the conversions made.     *)
(* The rate of the argument is the sr the caller passes with it.           *)
(***************************************************************************)
MaxChannels == 4     \* channels of an input buffer range over 1..MaxChannels
MaxSamples == 2      \* samples per channel range over 1..MaxSamples
MaxSignal == 2       \* distinct channel contents
DefaultTargetSr == 48000
SampleRates == {16000, 44100, DefaultTargetSr}

CeilDiv(a, b) == (a + b - 1) \div b

\* torchaudio.functional.resample(audio, sr, target_sr): every channel is
\* converted on its own; the result has ceil(target_sr * n / sr) samples.
resample(audio, sr, target_sr) ==
    [ch |-> [k \in DOMAIN audio.ch |->
                [id |-> audio.ch[k].id,
                 rs |-> Append(audio.ch[k].rs, <<sr, target_sr>>)]],
     n |-> CeilDiv(target_sr * audio.n, sr),
     rate |-> target_sr]

\* A faulty variant: it compares sr with the default rate instead of target_sr.
Mut_resample_if_needed(audio, sr, target_sr) ==
    IF sr # DefaultTargetSr THEN resample(audio, sr, target_sr) ELSE audio

\* "Resample if needed"
resample_if_needed(audio, sr, target_sr) ==
    IF sr # target_sr THEN resample(audio, sr, target_sr) ELSE audio

\* A faulty variant: it keeps the last two channels of a multi-channel buffer.
Mut_convert_to_stereo(audio) ==
    IF Len(audio.ch) = 1
    THEN [audio EXCEPT !.ch = ListMul(audio.ch, 2)]
    ELSE IF Len(audio.ch) > 2
    THEN [audio EXCEPT !.ch = SubSeq(audio.ch, Len(audio.ch) - 1, Len(audio.ch))]
    ELSE audio

\* "Convert to stereo"
convert_to_stereo(audio) ==
    IF Len(audio.ch) = 1
    THEN [audio EXCEPT !.ch = ListMul(audio.ch, 2)]
    ELSE IF Len(audio.ch) > 2
    THEN [audio EXCEPT !.ch = SubSeq(audio.ch, 1, 2)]
    ELSE audio

normalize_audio_to_stereo_48k(audio, sr, target_sr) ==
    Returned(convert_to_stereo(resample_if_needed(audio, sr, target_sr)))

Channels == [id : 1..MaxSignal, rs : {<<>>}]
AudioInputs ==
    {[audio |-> [ch |-> c, n |-> n, rate |-> sr], sr |-> sr, target_sr |-> tsr] :
        c \in (SeqsUpTo(Channels, MaxChannels) \ {<<>>}),
        n \in 1..MaxSamples, sr \in SampleRates, tsr \in SampleRates}

InitNormalizeAudio ==
    /\ fn = "normalize_audio_to_stereo_48k"
    /\ args \in AudioInputs

Do_normalize_audio_to_stereo_48k ==
    /\ pc = "call"
    /\ fn = "normalize_audio_to_stereo_48k"
    /\ ret' = normalize_audio_to_stereo_48k(args.audio, args.sr, args.target_sr)
    /\ pc' = "done"
    /\ UNCHANGED <<fn, args, caller>>

\* The caller normalizes the buffer it got back: it is at target_sr now.
Again_normalize_audio_to_stereo_48k ==
    /\ pc = "done"
    /\ fn = "normalize_audio_to_stereo_48k"
    /\ caller = NoCaller
    /\ ret.kind = "return"
    /\ caller' = [fn |-> fn, args |-> args, ret |-> ret]
    /\ args' = [audio |-> ret.val, sr |-> args.target_sr,
                target_sr |-> args.target_sr]
    /\ ret' = Pending
    /\ pc' = "call"
    /\ UNCHANGED fn

(***************************************************************************)
(* audio_utils.pad_sequences.  A 1-D tensor is a sequence of integers, the *)
(* padded tensor a sequence of rows.  The outcome carries the returned     *)
(* tensor and the input sequences as the call leaves them.                 *)
(***************************************************************************)
MaxSeqs == 2         \* number of sequences ranges over 1..MaxSeqs
MaxSeqLen == 2       \* length of a sequence ranges over 0..MaxSeqLen
MaxPadLen == 3       \* max_length ranges over 0..MaxPadLen

Min(a, b) == IF a < b THEN a ELSE b

\* A faulty variant: it fills the tensor with zeros, whatever pad_value is.
Mut_full(rows, cols, pad_value) ==
    [r \in 1..rows |-> [c \in 1..cols |-> 0]]

\* torch.full((rows, cols), pad_value)
full(rows, cols, pad_value) ==
    [r \in 1..rows |-> [c \in 1..cols |-> pad_value]]

\* length = min(seq.shape[0], max_length)
copy_length(seq, max_length) == Min(Len(seq), max_length)

\* padded[i, :length] = seq[:length]
assign_row(padded, i, seq, length) ==
    [padded EXCEPT ![i] =
        [c \in DOMAIN padded[i] |->
            IF c <= length THEN seq[c] ELSE padded[i][c]]]

RECURSIVE pad_loop(_, _, _, _)
\* for i, seq in enumerate(sequences), from the i-th sequence on
pad_loop(padded, sequences, max_length, i) ==
    IF i > Len(sequences)
    THEN padded
    ELSE pad_loop(assign_row(padded, i, sequences[i],
                             copy_length(sequences[i], max_length)),
                  sequences, max_length, i + 1)

pad_sequences(sequences, max_length, pad_value) ==
    Returned([padded |-> pad_loop(full(Len(sequences), max_length, pad_value),
                                  sequences, max_length, 1),
              sequences |-> sequences])

PadElements == {1, 2}
PadValues == {0, 1}
PadInputs ==
    [sequences : (SeqsUpTo(SeqsUpTo(PadElements, MaxSeqLen), MaxSeqs) \ {<<>>}),
     max_length : 0..MaxPadLen,
     pad_value : PadValues]

InitPadSequences ==
    /\ fn = "pad_sequences"
    /\ args \in PadInputs

Do_pad_sequences ==
    /\ pc = "call"
    /\ fn = "pad_sequences"
    /\ ret' = pad_sequences(args.sequences, args.max_length, args.pad_value)
    /\ pc' = "done"
    /\ UNCHANGED <<fn, args, caller>>

(***************************************************************************)
(* metadata_builder.  Values of any Python type are PyNone, PyInt, PyStr   *)
(* and the following; a float is a multiple of one half or is not finite.  *)
(* A mapping is a record over the keys the module reads, a key that is     *)
(* not in the mapping holding Absent.                                      *)
(***************************************************************************)
DefaultDuration == 30

Absent == [t |-> "absent", i |-> 0, s |-> <<>>]
PyFloat(halves) == [t |-> "float", i |-> halves, s |-> <<>>]
PyNaN == [t |-> "float", i |-> 0, s |-> <<"n", "a", "n">>]
PyInf == [t |-> "float", i |-> 0, s |-> <<"i", "n", "f">>]
PyEmptyList == [t |-> "list", i |-> 0, s |-> <<>>]

NL == <<"\n">>
NA == <<"N", "/", "A">>
BpmPrefix == <<"-", " ", "b", "p", "m", ":", " ">>
TimesignaturePrefix ==
    <<"-", " ", "t", "i", "m", "e", "s", "i", "g", "n", "a", "t", "u", "r", "e",
      ":", " ">>
KeyscalePrefix == <<"-", " ", "k", "e", "y", "s", "c", "a", "l", "e", ":", " ">>
DurationPrefix == <<"-", " ", "d", "u", "r", "a", "t", "i", "o", "n", ":", " ">>
SecondsSuffix == <<" ", "s", "e", "c", "o", "n", "d", "s">>
ThirtySeconds == <<"3", "0", " ", "s", "e", "c", "o", "n", "d", "s">>

create_default_meta ==
    <<"-", " ", "b", "p", "m", ":", " ", "N", "/", "A", "\n">>
    \o <<"-", " ", "t", "i", "m", "e", "s", "i", "g", "n", "a", "t", "u", "r", "e",
         ":", " ", "N", "/", "A", "\n">>
    \o <<"-", " ", "k", "e", "y", "s", "c", "a", "l", "e", ":", " ",
         "N", "/", "A", "\n">>
    \o <<"-", " ", "d", "u", "r", "a", "t", "i", "o", "n", ":", " ",
         "3", "0", " ", "s", "e", "c", "o", "n", "d", "s", "\n">>

DigitChars == <<"0", "1", "2", "3", "4", "5", "6", "7", "8", "9">>

RECURSIVE IntToStr(_)
\* str(n) of an int
IntToStr(n) ==
    IF n < 0 THEN <<"-">> \o IntToStr(-n)
    ELSE IF n < 10 THEN <<DigitChars[n + 1]>>
    ELSE IntToStr(n \div 10) \o <<DigitChars[(n % 10) + 1]>>

RECURSIVE FloatToStr(_)
\* str(x) of the finite float x = halves / 2
FloatToStr(halves) ==
    IF halves < 0 THEN <<"-">> \o FloatToStr(-halves)
    ELSE IntToStr(halves \div 2) \o <<".">>
             \o (IF halves % 2 = 1 THEN <<"5">> ELSE <<"0">>)

\* f"{value}"
format_value(value) ==
    CASE value.t = "None" -> <<"N", "o", "n", "e">>
      [] value.t = "int" -> IntToStr(value.i)
      [] value.t = "float" ->
            IF value.s # <<>> THEN value.s ELSE FloatToStr(value.i)
      [] value.t = "str" -> value.s
      [] value.t = "list" -> <<"[", "]">>

\* int(value) of an int or a float: truncation towards zero; a NaN raises
\* ValueError and an infinity OverflowError.
int_of_number(value) ==
    IF value.t = "int" THEN Returned(value.i)
    ELSE IF value.s = <<"n", "a", "n">> THEN Raised("ValueError")
    ELSE IF value.s # <<>> THEN Raised("OverflowError")
    ELSE IF value.i >= 0 THEN Returned(value.i \div 2)
    ELSE Returned(-((-value.i) \div 2))

\* meta_dict.get(key, default)
get(meta_dict, key, default) ==
    IF meta_dict[key].t = "absent" THEN default ELSE meta_dict[key]

extract_bpm(meta_dict) ==
    get(meta_dict, "bpm", get(meta_dict, "tempo", PyStr(NA)))

extract_timesignature(meta_dict) ==
    get(meta_dict, "timesignature", get(meta_dict, "time_signature", PyStr(NA)))

extract_keyscale(meta_dict) ==
    get(meta_dict, "keyscale",
        get(meta_dict, "key", get(meta_dict, "scale", PyStr(NA))))

extract_duration(meta_dict) ==
    get(meta_dict, "duration",
        get(meta_dict, "length", PyInt(DefaultDuration)))

\* A faulty variant: it ends the text without the last newline.
Mut_meta_text(bpm, timesignature, keyscale, duration) ==
    BpmPrefix \o format_value(bpm) \o NL
        \o TimesignaturePrefix \o format_value(timesignature) \o NL
        \o KeyscalePrefix \o format_value(keyscale) \o NL
        \o DurationPrefix \o format_value(duration)

\* The returned f-string
meta_text(bpm, timesignature, keyscale, duration) ==
    BpmPrefix \o format_value(bpm) \o NL
        \o TimesignaturePrefix \o format_value(timesignature) \o NL
        \o KeyscalePrefix \o format_value(keyscale) \o NL
        \o DurationPrefix \o format_value(duration) \o NL

dict_to_meta_string(meta_dict) ==
    LET bpm == extract_bpm(meta_dict)
        timesignature == extract_timesignature(meta_dict)
        keyscale == extract_keyscale(meta_dict)
        duration == extract_duration(meta_dict)
        seconds == int_of_number(duration)
    IN  IF duration.t \in {"int", "float"}
        THEN IF seconds.kind # "return"
             THEN seconds
             ELSE Returned(meta_text(bpm, timesignature, keyscale,
                               PyStr(IntToStr(seconds.val) \o SecondsSuffix)))
        ELSE IF duration.t # "str"
        THEN Returned(meta_text(bpm, timesignature, keyscale,
                                PyStr(ThirtySeconds)))
        ELSE Returned(meta_text(bpm, timesignature, keyscale, duration))

MetaKeys ==
    {"bpm", "tempo", "timesignature", "time_signature", "keyscale", "key",
     "scale", "duration", "length"}
EmptyDict == [k \in MetaKeys |-> Absent]

\* The mappings given to dict_to_meta_string.
MetaDicts ==
    [bpm : {Absent, PyNone, PyInt(120), PyStr(<<"f", "a", "s", "t">>),
            PyStr(<<"9", "\n", "x">>)},
     tempo : {Absent, PyInt(90)},
     timesignature : {Absent, PyNone, PyStr(<<"4", "/", "4">>)},
     time_signature : {Absent, PyStr(<<"3", "/", "4">>)},
     keyscale : {Absent, PyStr(<<"C">>)},
     key : {Absent, PyStr(<<"D">>)},
     scale : {Absent, PyNone, PyStr(<<"E">>)},
     duration : {Absent, PyNone, PyInt(45), PyFloat(61), PyFloat(-3), PyNaN,
                 PyInf, PyStr(<<"1", "m">>), PyStr(<<"2", "\n">>), PyEmptyList},
     length : {Absent, PyInt(7), PyStr(<<"8", "s">>)}]

InitDictToMetaString ==
    /\ fn = "dict_to_meta_string"
    /\ args \in [meta_dict : MetaDicts]

Do_dict_to_meta_string ==
    /\ pc = "call"
    /\ fn = "dict_to_meta_string"
    /\ ret' = dict_to_meta_string(args.meta_dict)
    /\ pc' = "done"
    /\ UNCHANGED <<fn, args, caller>>

(***************************************************************************)
(* metadata_builder.parse_metas.  An item of metas is None, a str, a dict  *)
(* or a value of another type: [t |-> type, s |-> the characters of a     *)
(* str, d |-> the mapping of a dict].                                      *)
(***************************************************************************)
MaxMetas == 2        \* length of metas ranges over 0..MaxMetas

MNone == [t |-> "None", s |-> <<>>, d |-> EmptyDict]
MStr(chars) == [t |-> "str", s |-> chars, d |-> EmptyDict]
MDict(meta_dict) == [t |-> "dict", s |-> <<>>, d |-> meta_dict]
MOther == [t |-> "other", s |-> <<>>, d |-> EmptyDict]

\* A faulty variant: it appends a newline to a string item instead of
\* passing it through.
Mut_parse_meta(meta) ==
    IF meta.t = "None" THEN Returned(MStr(create_default_meta))
    ELSE IF meta.t = "str" THEN Returned(MStr(meta.s \o NL))
    ELSE IF meta.t = "dict"
    THEN LET text == dict_to_meta_string(meta.d)
         IN  IF text.kind = "return" THEN Returned(MStr(text.val)) ELSE text
    ELSE Returned(MStr(create_default_meta))

\* The body of the loop of parse_metas: the str appended for one item.
parse_meta(meta) ==
    IF meta.t = "None" THEN Returned(MStr(create_default_meta))
    ELSE IF meta.t = "str" THEN Returned(MStr(meta.s))
    ELSE IF meta.t = "dict"
    THEN LET text == dict_to_meta_string(meta.d)
         IN  IF text.kind = "return" THEN Returned(MStr(text.val)) ELSE text
    ELSE Returned(MStr(create_default_meta))

\* The loop ends at the first item whose conversion raises.
parse_metas(metas) ==
    LET parsed == [k \in DOMAIN metas |-> parse_meta(metas[k])]
        failed == {k \in DOMAIN metas : parsed[k].kind # "return"}
    IN  IF failed # {}
        THEN parsed[CHOOSE k \in failed : \A j \in failed : k <= j]
        ELSE Returned([k \in DOMAIN metas |-> parsed[k].val])

MetaItems ==
    {MNone, MOther, MStr(<<"f", "a", "s", "t">>), MStr(create_default_meta),
     MDict(EmptyDict),
     MDict([EmptyDict EXCEPT !["bpm"] = PyInt(120),
                             !["key"] = PyStr(<<"D">>),
                             !["length"] = PyFloat(61)]),
     MDict([EmptyDict EXCEPT !["duration"] = PyNaN])}

InitParseMetas ==
    /\ fn = "parse_metas"
    /\ args \in [metas : SeqsUpTo(MetaItems, MaxMetas)]

Do_parse_metas ==
    /\ pc = "call"
    /\ fn = "parse_metas"
    /\ ret' = parse_metas(args.metas)
    /\ pc' = "done"
    /\ UNCHANGED <<fn, args, caller>>

\* The caller parses the list it got back.
Again_parse_metas ==
    /\ pc = "done"
    /\ fn = "parse_metas"
    /\ caller = NoCaller
    /\ ret.kind = "return"
    /\ caller' = [fn |-> fn, args |-> args, ret |-> ret]
    /\ args' = [metas |-> ret.val]
    /\ ret' = Pending
    /\ pc' = "call"
    /\ UNCHANGED fn

(***************************************************************************)
(* metadata_builder.build_metadata_dict.                                   *)
(***************************************************************************)
MaxBpmLen == 3       \* length of a bpm string ranges over 0..MaxBpmLen

IsSpace(c) == c \in {" ", "\t", "\n"}

RECURSIVE lstrip(_)
lstrip(chars) ==
    IF chars # <<>> /\ IsSpace(Head(chars)) THEN lstrip(Tail(chars)) ELSE chars

RECURSIVE rstrip(_)
rstrip(chars) ==
    IF chars # <<>> /\ IsSpace(chars[Len(chars)])
    THEN rstrip(SubSeq(chars, 1, Len(chars) - 1))
    ELSE chars

IsDigit(c) == \E d \in 1..10 : DigitChars[d] = c
DigitValue(c) == (CHOOSE d \in 1..10 : DigitChars[d] = c) - 1

RECURSIVE digits_value(_, _)
digits_value(chars, acc) ==
    IF chars = <<>> THEN acc
    ELSE IF Head(chars) = "_" THEN digits_value(Tail(chars), acc)
    ELSE digits_value(Tail(chars), 10 * acc + DigitValue(Head(chars)))

\* int(text) of a str: blanks around it are dropped, a sign may lead, and
\* the digits may be grouped by single underscores; anything else raises
\* ValueError.
int_of_str(text) ==
    LET stripped == rstrip(lstrip(text))
        signed == stripped # <<>> /\ Head(stripped) \in {"+", "-"}
        body == IF signed THEN Tail(stripped) ELSE stripped
        valid ==
            /\ body # <<>>
            /\ \A k \in DOMAIN body : IsDigit(body[k]) \/ body[k] = "_"
            /\ IsDigit(body[1])
            /\ IsDigit(body[Len(body)])
            /\ \A k \in 1..(Len(body) - 1) :
                   ~(body[k] = "_" /\ body[k + 1] = "_")
    IN  IF ~valid THEN Raised("ValueError")
        ELSE IF signed /\ Head(stripped) = "-"
        THEN Returned(-digits_value(body, 0))
        ELSE Returned(digits_value(body, 0))

\* A faulty variant: it stores the bpm string itself when it parses.
Mut_handle_bpm(bpm) ==
    IF bpm.t # "None"
    THEN IF bpm.t = "str"
         THEN IF int_of_str(bpm.s).kind = "return" THEN bpm ELSE PyStr(NA)
         ELSE bpm
    ELSE PyStr(NA)

\* "Handle BPM"
handle_bpm(bpm) ==
    IF bpm.t # "None"
    THEN IF bpm.t = "str"
         THEN LET parsed == int_of_str(bpm.s)
              IN  IF parsed.kind = "return" THEN PyInt(parsed.val)
                  ELSE PyStr(NA)
         ELSE bpm
    ELSE PyStr(NA)

\* The truth value of a Python value
truthy(value) ==
    CASE value.t = "None" -> FALSE
      [] value.t = "absent" -> FALSE
      [] value.t = "int" -> value.i # 0
      [] value.t = "float" -> value.i # 0 \/ value.s # <<>>
      [] value.t = "str" -> value.s # <<>>
      [] value.t = "list" -> FALSE

build_metadata_dict(bpm, key_scale, time_signature, duration) ==
    Returned([EmptyDict EXCEPT
        !["bpm"] = handle_bpm(bpm),
        !["keyscale"] = IF truthy(key_scale) THEN key_scale ELSE PyStr(NA),
        !["timesignature"] =
            IF truthy(time_signature) THEN time_signature ELSE PyStr(NA),
        !["duration"] =
            IF duration.t # "None" THEN duration ELSE PyInt(DefaultDuration)])

BpmChars == {"1", "2", "+", "-", "_", " ", "x"}
BpmValues ==
    {PyNone, PyInt(0), PyInt(120)}
        \cup {PyStr(chars) : chars \in SeqsUpTo(BpmChars, MaxBpmLen)}
        \cup {PyStr(<<"1", "2", "0">>), PyStr(<<"1", ".", "5">>)}
BuildInputs ==
    [bpm : BpmValues,
     key_scale : {PyNone, PyStr(<<>>), PyStr(<<"C", " ", "m", "a", "j", "o", "r">>)},
     time_signature : {PyStr(<<>>), PyStr(<<"4", "/", "4">>)},
     duration : {PyNone, PyInt(0), PyFloat(61)}]

InitBuildMetadataDict ==
    /\ fn = "build_metadata_dict"
    /\ args \in BuildInputs

Do_build_metadata_dict ==
    /\ pc = "call"
    /\ fn = "build_metadata_dict"
    /\ ret' = build_metadata_dict(args.bpm, args.key_scale,
                                  args.time_signature, args.duration)
    /\ pc' = "done"
    /\ UNCHANGED <<fn, args, caller>>

\* The caller formats the mapping that build_metadata_dict returned.
Then_dict_to_meta_string ==
    /\ pc = "done"
    /\ fn = "build_metadata_dict"
    /\ ret.kind = "return"
    /\ caller' = [fn |-> fn, args |-> args, ret |-> ret]
    /\ fn' = "dict_to_meta_string"
    /\ args' = [meta_dict |-> ret.val]
    /\ ret' = Pending
    /\ pc' = "call"

(***************************************************************************)
(* metadata_builder.extract_caption_and_language.  An item of metas is a   *)
(* dict, [t |-> "dict", d |-> [caption, language]] with Absent for a key   *)
(* it does not hold, or a str or None, which carry no keys.                *)
(***************************************************************************)
MaxCaptions == 2     \* length of captions ranges over 0..MaxCaptions
MaxLanguages == 2    \* length of vocal_languages ranges over 0..MaxLanguages

NoneLanguage == <<"n", "o", "n", "e">>

\* A faulty variant: it lets the caption of the metadata replace a caption given.
Mut_extract_caption(meta, captions, i) ==
    LET caption == IF i <= Len(captions) THEN captions[i] ELSE PyStr(<<>>)
    IN  IF meta.t = "dict" /\ meta.d.caption.t # "absent"
        THEN meta.d.caption
        ELSE caption

\* The caption of the i-th item (i counts from 1)
extract_caption(meta, captions, i) ==
    LET caption == IF i <= Len(captions) THEN captions[i] ELSE PyStr(<<>>)
    IN  IF meta.t = "dict" /\ meta.d.caption.t # "absent" /\ ~truthy(caption)
        THEN meta.d.caption
        ELSE caption

\* The language of the i-th item
extract_language(meta, vocal_languages, i) ==
    LET language == IF i <= Len(vocal_languages) THEN vocal_languages[i]
                    ELSE PyStr(NoneLanguage)
    IN  IF /\ meta.t = "dict"
           /\ meta.d.language.t # "absent"
           /\ language = PyStr(NoneLanguage)
        THEN meta.d.language
        ELSE language

extract_caption_and_language(metas, captions, vocal_languages) ==
    Returned([captions |->
                 [k \in DOMAIN metas |-> extract_caption(metas[k], captions, k)],
              languages |->
                 [k \in DOMAIN metas |->
                     extract_language(metas[k], vocal_languages, k)]])

CaptionMetas ==
    {[t |-> "None", d |-> [caption |-> Absent, language |-> Absent]],
     [t |-> "str", d |-> [caption |-> Absent, language |-> Absent]]}
        \cup [t : {"dict"},
              d : [caption : {Absent, PyStr(<<"m">>)},
                   language : {Absent, PyStr(<<"f", "r">>)}]]
CaptionValues == {PyStr(<<>>), PyStr(<<"c">>)}
LanguageValues == {PyStr(NoneLanguage), PyStr(<<"e", "n">>)}

InitExtract ==
    /\ fn = "extract_caption_and_language"
    /\ args \in [metas : SeqsUpTo(CaptionMetas, MaxMetas),
                 captions : SeqsUpTo(CaptionValues, MaxCaptions),
                 vocal_languages : SeqsUpTo(LanguageValues, MaxLanguages)]

Do_extract_caption_and_language ==
    /\ pc = "call"
    /\ fn = "extract_caption_and_language"
    /\ ret' = extract_caption_and_language(args.metas, args.captions,
                                           args.vocal_languages)
    /\ pc' = "done"
    /\ UNCHANGED <<fn, args, caller>>

(***************************************************************************)
(* The specification.                                                      *)
(***************************************************************************)
Init ==
    /\ pc = "call"
    /\ ret = Pending
    /\ caller = NoCaller
    /\ \/ InitHints
       \/ InitInstructions
       \/ InitNormalizeAudio
       \/ InitPadSequences
       \/ InitDictToMetaString
       \/ InitParseMetas
       \/ InitBuildMetadataDict
       \/ InitExtract

Next ==
    \/ Do_normalize_audio_code_hints
    \/ Do_normalize_instructions
    \/ Do_normalize_audio_to_stereo_48k
    \/ Again_normalize_audio_to_stereo_48k
    \/ Do_pad_sequences
    \/ Do_dict_to_meta_string
    \/ Do_parse_metas
    \/ Again_parse_metas
    \/ Do_build_metadata_dict
    \/ Then_dict_to_meta_string
    \/ Do_extract_caption_and_language

Spec == Init /\ [][Next]_vars

(***************************************************************************)
(* Properties of the batch normalizers.                                    *)
(***************************************************************************)

\* C1: for every batch size N >= 0 and every audio_code_hints that is None,
\* a str or a list, normalize_audio_code_hints raises or returns a list of
\* exactly N items; a list of N items is returned with the same items in the
\* same order; a list whose length is not 0, 1 or N raises ValueError.
C1_HintsLengthAndIdentity ==
    (/\ pc = "done"
     /\ fn = "normalize_audio_code_hints"
     /\ args.audio_code_hints.t \in {"None", "str", "list"}) =>
        LET x == args.audio_code_hints
            N == args.batch_size
        IN  /\ ret.kind = "return" => Len(ret.val) = N
            /\ (x.t = "list" /\ Len(x.l) = N) =>
                   (ret.kind = "return" /\ ret.val = x.l)
            /\ (x.t = "list" /\ Len(x.l) \notin {0, 1, N}) =>
                   ret.kind = "ValueError"

\* A list of N >= 2 items has been returned as it was given.
C1_Witness ==
    /\ pc = "done"
    /\ fn = "normalize_audio_code_hints"
    /\ args.audio_code_hints.t = "list"
    /\ args.batch_size >= 2
    /\ Len(args.audio_code_hints.l) = args.batch_size
    /\ args.audio_code_hints.l[1] # args.audio_code_hints.l[2]
    /\ ret = Returned(args.audio_code_hints.l)

\* C2: for normalize_audio_code_hints and normalize_instructions, ValueError
\* is raised exactly when the value is a list whose length is not 0, 1 or
\* batch_size, or (normalize_instructions) the value is None or an empty
\* list and default is None; TypeError is raised exactly when the value is
\* not None, a str or a list; every other call returns, and
\* normalize_instructions returns default batch_size times for a None or
\* empty value with a default.
C2_BatchErrorOutcomes ==
    (pc = "done"
        /\ fn \in {"normalize_audio_code_hints", "normalize_instructions"}) =>
        LET x == IF fn = "normalize_instructions" THEN args.instructions
                 ELSE args.audio_code_hints
            N == args.batch_size
            empty == x.t = "None" \/ (x.t = "list" /\ Len(x.l) = 0)
            badLength == x.t = "list" /\ Len(x.l) \notin {0, 1, N}
            noDefault == /\ fn = "normalize_instructions"
                         /\ empty
                         /\ args.default.t = "None"
        IN  /\ ret.kind \in {"return", "ValueError", "TypeError"}
            /\ ret.kind = "ValueError" <=> (badLength \/ noDefault)
            /\ ret.kind = "TypeError" <=> x.t \notin {"None", "str", "list"}
            /\ (fn = "normalize_instructions" /\ empty /\ ~noDefault) =>
                   ret = Returned([k \in 1..N |-> args.default])

\* normalize_instructions has raised ValueError for an empty list without a
\* default.
C2_Witness ==
    /\ pc = "done"
    /\ fn = "normalize_instructions"
    /\ args.instructions = BList(<<>>)
    /\ args.default.t = "None"
    /\ args.batch_size > 0
    /\ ret.kind = "ValueError"

(***************************************************************************)
(* Properties of normalize_audio_to_stereo_48k.                            *)
(***************************************************************************)

\* The channel c of the argument as the call must deliver it: converted from
\* sr to target_sr when the two differ, and as it was otherwise.
C3_Delivered(c) ==
    IF args.sr = args.target_sr THEN c
    ELSE [id |-> c.id, rs |-> Append(c.rs, <<args.sr, args.target_sr>>)]

C4_NormalizeIdempotent ==
    (/\ pc = "done"
     /\ fn = "normalize_audio_to_stereo_48k"
     /\ caller.fn = "normalize_audio_to_stereo_48k") =>
        /\ args.audio = caller.ret.val
        /\ args.sr = caller.args.target_sr
        /\ args.target_sr = caller.args.target_sr
        /\ ret = caller.ret

\* The second call has returned, the first one having resampled a mono
\* buffer to a rate other than the default.
C4_Witness ==
    /\ pc = "done"
    /\ fn = "normalize_audio_to_stereo_48k"
    /\ caller.fn = "normalize_audio_to_stereo_48k"
    /\ Len(caller.args.audio.ch) = 1
    /\ caller.args.sr # caller.args.target_sr
    /\ caller.args.target_sr # DefaultTargetSr
    /\ ret.kind = "return"

(***************************************************************************)
(* Properties of pad_sequences.                                            *)
(***************************************************************************)

\* C9: for every non-empty list of sequences, every max_length >= 0 and
\* every pad_value, pad_sequences returns len(sequences) rows of max_length
\* entries; row i holds the first min(len(sequences[i]), max_length) items
\* of sequences[i] in order and then only pad_value; a longer sequence is
\* truncated; the input sequences are unchanged.
C9_PadSequences ==
    (pc = "done" /\ fn = "pad_sequences") =>
        /\ ret.kind = "return"
        /\ Len(ret.val.padded) = Len(args.sequences)
        /\ \A i \in DOMAIN args.sequences :
              /\ Len(ret.val.padded[i]) = args.max_length
              /\ \A j \in 1..args.max_length :
                    ret.val.padded[i][j] =
                        IF j <= Len(args.sequences[i])
                        THEN args.sequences[i][j]
                        ELSE args.pad_value
        /\ ret.val.sequences = args.sequences

\* One sequence has been truncated and another padded with a pad_value
\* other than 0.
C9_Witness ==
    /\ pc = "done"
    /\ fn = "pad_sequences"
    /\ args.pad_value # 0
    /\ \E i, j \in DOMAIN args.sequences :
          /\ Len(args.sequences[i]) > args.max_length
          /\ Len(args.sequences[j]) < args.max_length
    /\ ret.kind = "return"

(***************************************************************************)
(* Properties of the metadata text.                                        *)
(***************************************************************************)

\* The value the text must show for a field: the first of the keys that the
\* mapping holds, and the fallback when it holds none of them.
FirstPresent(meta_dict, keys, fallback) ==
    IF \E k \in DOMAIN keys : meta_dict[keys[k]].t # "absent"
    THEN meta_dict[keys[CHOOSE k \in DOMAIN keys :
                           /\ meta_dict[keys[k]].t # "absent"
                           /\ \A j \in 1..(k - 1) :
                                  meta_dict[keys[j]].t = "absent"]]
    ELSE fallback

ShownBpm(meta_dict) ==
    FirstPresent(meta_dict, <<"bpm", "tempo">>, PyStr(NA))
ShownTimesignature(meta_dict) ==
    FirstPresent(meta_dict, <<"timesignature", "time_signature">>, PyStr(NA))
ShownKeyscale(meta_dict) ==
    FirstPresent(meta_dict, <<"keyscale", "key", "scale">>, PyStr(NA))
ShownDuration(meta_dict) ==
    FirstPresent(meta_dict, <<"duration", "length">>, PyInt(DefaultDuration))

\* The duration line's value for the integer number of seconds n.
DurationText(duration, n) ==
    IF duration.t \in {"int", "float"} THEN IntToStr(n) \o SecondsSuffix
    ELSE IF duration.t = "str" THEN duration.s
    ELSE ThirtySeconds

\* n is the number x with its fraction cut off: n = x for an int, and for
\* the float halves / 2 the integer between 0 and x that is nearest to x.
Truncates(n, x) ==
    IF x.t = "int" THEN n = x.i
    ELSE /\ 2 * n <= x.i => x.i < 2 * n + 2
         /\ 2 * n >= x.i => x.i > 2 * n - 2
         /\ (x.i >= 0 => 2 * n <= x.i)
         /\ (x.i <= 0 => 2 * n >= x.i)

ExpectedText(meta_dict, n) ==
    BpmPrefix \o format_value(ShownBpm(meta_dict)) \o NL
        \o TimesignaturePrefix \o format_value(ShownTimesignature(meta_dict))
        \o NL
        \o KeyscalePrefix \o format_value(ShownKeyscale(meta_dict)) \o NL
        \o DurationPrefix \o DurationText(ShownDuration(meta_dict), n) \o NL

Finite(x) == x.s = <<>>
Seconds == -100..100

\* C5: for every mapping, each of the nine keys absent or present with any
\* value, dict_to_meta_string shows bpm, else tempo, else "N/A"; timesignature,
\* else time_signature, else "N/A"; keyscale, else key, else scale, else
\* "N/A"; and duration, else length, else 30, as "<integer> seconds",
\* truncated, when it is a number, and as "30 seconds" when it is neither a
\* number nor a str.
C5_FieldFallbacks ==
    (pc = "done" /\ fn = "dict_to_meta_string") =>
        LET d == args.meta_dict
            duration == ShownDuration(d)
        IN  /\ ret.kind = "return"
            /\ \E n \in Seconds :
                  /\ (duration.t \in {"int", "float"} /\ Finite(duration)) =>
                         Truncates(n, duration)
                  /\ ret.val = ExpectedText(d, n)

\* The part of C5 that the code keeps: the same statement for every mapping
\* whose duration is not a float that is NaN or infinite.
C5_FieldFallbacksFinite ==
    (/\ pc = "done"
     /\ fn = "dict_to_meta_string"
     /\ Finite(ShownDuration(args.meta_dict))) =>
        /\ ret.kind = "return"
        /\ \E n \in Seconds :
              /\ ShownDuration(args.meta_dict).t \in {"int", "float"} =>
                     Truncates(n, ShownDuration(args.meta_dict))
              /\ ret.val = ExpectedText(args.meta_dict, n)

\* The positions of the newlines of a text, and where its lines start.
Newlines(text) == {k \in DOMAIN text : text[k] = "\n"}
LineStarts(text) == {1} \cup {k + 1 : k \in Newlines(text) \ {Len(text)}}
NthOf(S, n) == CHOOSE x \in S : Cardinality({y \in S : y < x}) = n - 1
HasPrefixAt(text, pos, prefix) ==
    /\ pos + Len(prefix) - 1 <= Len(text)
    /\ SubSeq(text, pos, pos + Len(prefix) - 1) = prefix

\* The text is exactly four newline-terminated lines that start with the
\* four prefixes in their order.
FourLines(text) ==
    /\ text # <<>>
    /\ text[Len(text)] = "\n"
    /\ Cardinality(Newlines(text)) = 4
    /\ \A n \in 1..4 :
          HasPrefixAt(text, NthOf(LineStarts(text), n),
                      <<BpmPrefix, TimesignaturePrefix, KeyscalePrefix,
                        DurationPrefix>>[n])

\* The values a mapping's text shows hold no newline.
NoNewlineShown(meta_dict) ==
    /\ Newlines(format_value(ShownBpm(meta_dict))) = {}
    /\ Newlines(format_value(ShownTimesignature(meta_dict))) = {}
    /\ Newlines(format_value(ShownKeyscale(meta_dict))) = {}
    /\ ShownDuration(meta_dict).t = "str" =>
           Newlines(ShownDuration(meta_dict).s) = {}

PresentKeys(meta_dict) == {k \in DOMAIN meta_dict : meta_dict[k].t # "absent"}

\* C7: build_metadata_dict never raises for a bpm that is None, an int or a
\* str, and returns a mapping with exactly the keys bpm, keyscale,
\* timesignature, duration: bpm is "N/A" for None and for a str that does not
\* parse as an integer, the parsed integer for a str that parses, and the
\* value itself otherwise; keyscale and timesignature are "N/A" for an empty
\* or None argument and the argument otherwise; duration is 30 for None and
\* the argument, unmodified, otherwise (0 included).
C7_BuildMetadataDict ==
    (pc = "done" /\ fn = "build_metadata_dict") =>
        LET parsed == int_of_str(args.bpm.s)
            known == [text \in {<<"1", "2", "0">>, <<" ", "1", "2">>,
                                <<"1", "_", "2">>, <<"-", "1">>, <<"+", "2">>}
                        |-> CASE text = <<"1", "2", "0">> -> 120
                              [] text = <<" ", "1", "2">> -> 12
                              [] text = <<"1", "_", "2">> -> 12
                              [] text = <<"-", "1">> -> -1
                              [] text = <<"+", "2">> -> 2]
            unparsable == {<<>>, <<"x">>, <<"1", ".", "5">>, <<"1", " ", "2">>,
                           <<"_", "1">>, <<"1", "_">>, <<"-">>, <<"-", " ", "1">>}
        IN  /\ ret.kind = "return"
            /\ PresentKeys(ret.val) =
                   {"bpm", "keyscale", "timesignature", "duration"}
            /\ args.bpm.t = "None" => ret.val["bpm"] = PyStr(NA)
            /\ (args.bpm.t = "str" /\ parsed.kind = "return") =>
                   ret.val["bpm"] = PyInt(parsed.val)
            /\ (args.bpm.t = "str" /\ parsed.kind # "return") =>
                   ret.val["bpm"] = PyStr(NA)
            /\ (args.bpm.t = "str" /\ args.bpm.s \in DOMAIN known) =>
                   ret.val["bpm"] = PyInt(known[args.bpm.s])
            /\ (args.bpm.t = "str" /\ args.bpm.s \in unparsable) =>
                   ret.val["bpm"] = PyStr(NA)
            /\ args.bpm.t \notin {"None", "str"} => ret.val["bpm"] = args.bpm
            /\ ret.val["keyscale"] =
                   IF args.key_scale \in {PyNone, PyStr(<<>>)} THEN PyStr(NA)
                   ELSE args.key_scale
            /\ ret.val["timesignature"] =
                   IF args.time_signature \in {PyNone, PyStr(<<>>)}
                   THEN PyStr(NA)
                   ELSE args.time_signature
            /\ ret.val["duration"] =
                   IF args.duration = PyNone THEN PyInt(DefaultDuration)
                   ELSE args.duration

\* A mapping has been built from a bpm string that parses and a duration
\* of 0.
C7_Witness ==
    /\ pc = "done"
    /\ fn = "build_metadata_dict"
    /\ args.bpm = PyStr(<<"1", "_", "2">>)
    /\ args.duration = PyInt(0)
    /\ ret.kind = "return"
    /\ ret.val["bpm"] = PyInt(12)
    /\ ret.val["duration"] = PyInt(0)

\* C8: for lists metas, captions and vocal_languages of any lengths,
\* extract_caption_and_language does not fail and returns two lists of
\* len(metas) items; the caption at i is captions[i] if there is one, else
\* the empty string, replaced by metas[i]["caption"] only when metas[i] is a
\* mapping with that key and the caption so far is empty; the language at i
\* is vocal_languages[i] if there is one, else "none", replaced by
\* metas[i]["language"] only when metas[i] is a mapping with that key and
\* the language so far is "none".
C8_ExtractCaptionAndLanguage ==
    (pc = "done" /\ fn = "extract_caption_and_language") =>
        /\ ret.kind = "return"
        /\ Len(ret.val.captions) = Len(args.metas)
        /\ Len(ret.val.languages) = Len(args.metas)
        /\ \A i \in DOMAIN args.metas :
              LET meta == args.metas[i]
                  caption == IF i <= Len(args.captions) THEN args.captions[i]
                             ELSE PyStr(<<>>)
                  language == IF i <= Len(args.vocal_languages)
                              THEN args.vocal_languages[i]
                              ELSE PyStr(<<"n", "o", "n", "e">>)
                  hasCaption == meta.t = "dict" /\ meta.d.caption.t # "absent"
                  hasLanguage == meta.t = "dict" /\ meta.d.language.t # "absent"
              IN  /\ ret.val.captions[i] =
                         IF hasCaption /\ caption = PyStr(<<>>)
                         THEN meta.d.caption
                         ELSE caption
                  /\ ret.val.languages[i] =
                         IF hasLanguage /\ language = PyStr(<<"n", "o", "n", "e">>)
                         THEN meta.d.language
                         ELSE language

\* metas is longer than captions and vocal_languages; a caption that was
\* given has been kept although the mapping holds one, and a mapping's
\* caption and language have been taken beyond the ends of the lists.
C8_Witness ==
    /\ pc = "done"
    /\ fn = "extract_caption_and_language"
    /\ Len(args.metas) = 2
    /\ Len(args.captions) = 1
    /\ Len(args.vocal_languages) = 1
    /\ args.metas[1].t = "dict"
    /\ args.metas[1].d.caption.t = "str"
    /\ args.captions[1] # PyStr(<<>>)
    /\ ret.val.captions[1] = args.captions[1]
    /\ args.metas[2].t = "dict"
    /\ ret.val.captions[2] = PyStr(<<"m">>)
    /\ ret.val.languages[2] = PyStr(<<"f", "r">>)

\* The arguments of build_metadata_dict for a request without metadata.
NoMetadataArgs(a) ==
    /\ a.bpm = PyNone
    /\ a.key_scale = PyStr(<<>>)
    /\ a.time_signature = PyStr(<<>>)
    /\ a.duration = PyNone

\* C10: every way of producing the text of a request without metadata gives
\* the text of create_default_meta: parse_metas maps None, an item of an
\* unsupported type and an empty mapping to it, and dict_to_meta_string of
\* build_metadata_dict(None, "", "", None) equals it; the list parse_metas
\* returns has the length and order of its input, and parse_metas applied to
\* its own output returns it unchanged.
C10_DefaultTextAndParseMetas ==
    /\ (pc = "done" /\ fn = "parse_metas" /\ ret.kind = "return") =>
          /\ Len(ret.val) = Len(args.metas)
          /\ \A i \in DOMAIN args.metas :
                LET meta == args.metas[i]
                IN  /\ ret.val[i].t = "str"
                    /\ (meta.t \in {"None", "other"} \/ meta = MDict(EmptyDict))
                           => ret.val[i].s = create_default_meta
                    /\ meta.t = "str" => ret.val[i] = meta
                    /\ (meta.t = "dict" /\ Finite(ShownDuration(meta.d))) =>
                           \E n \in Seconds : ret.val[i].s = ExpectedText(meta.d, n)
    /\ (pc = "done" /\ fn = "parse_metas" /\ caller.fn = "parse_metas") =>
          /\ args.metas = caller.ret.val
          /\ ret = caller.ret
    /\ (/\ pc = "done"
        /\ fn = "dict_to_meta_string"
        /\ caller.fn = "build_metadata_dict"
        /\ NoMetadataArgs(caller.args)) =>
          /\ args.meta_dict = caller.ret.val
          /\ ret = Returned(create_default_meta)

\* parse_metas has been applied to its own output for a None item and a
\* mapping.
C10_Witness ==
    /\ pc = "done"
    /\ fn = "parse_metas"
    /\ caller.fn = "parse_metas"
    /\ Len(caller.args.metas) = 2
    /\ caller.args.metas[1].t = "None"
    /\ caller.args.metas[2].t = "dict"
    /\ caller.args.metas[2] # MDict(EmptyDict)
    /\ ret.kind = "return"
    /\ ret.val[1].s = create_default_meta
=============================================================================
